---- MODULE Spec2Model ----
(***************************************************************************)
(* A model of physionet-to-roda.py: the PhysioNetDB record extractor, the  *)
(* catalog lister and the module-level pipeline driver.                    *)
(*                                                                         *)
(* Text is a sequence of fragments (strings), so that concatenation is \o, *)
(* exact comparison is equality and a regular-expression search is a       *)
(* search for a contiguous run of fragments.  A parsed document is the     *)
(* sequence of its elements in document order, which is the order          *)
(* BeautifulSoup's find, find_all and find_next walk.                      *)
(***************************************************************************)
EXTENDS Integers, Sequences, FiniteSets, TLC

VARIABLES
    html,            \* the parsed detail page handed to the extractor
    database,        \* the PhysioNetDB under extraction
    raised,          \* the exception the last call raised, or "none"
    hist,            \* the extractor calls made so far, oldest first
    soup,            \* the parsed index page
    db_type,         \* args.db_type
    lpc,             \* where the catalog listing stands
    item,            \* the position, in databases_ul, of the listing loop
    open_databases,  \* the list of PhysioNetDB entries
    args,            \* args.format and args.csv
    START,
    END,
    pc,              \* where the driver stands
    index,           \* the position, in open_databases, of the driver's loop
    tag,             \* the position, in database.tags, of the merge loop
    entry,           \* the shared record of the single-file format
    files,           \* the files written under output/, oldest first
    events,          \* the requests, extractions and outputs, oldest first
    stdout,
    exit_status

xvars == <<html, database, raised, hist>>
lvars == <<soup, db_type, lpc, item>>
dvars == <<args, START, END, pc, index, tag, entry, files, events, stdout, exit_status>>
vars == <<xvars, lvars, open_databases, dvars>>

-----------------------------------------------------------------------------
(* Bounds *)

MaxNodes == 4
MaxMixedNodes == 3
MaxOps == 3
MaxItems == 2
MaxEntries == 3

-----------------------------------------------------------------------------
(* Configuration *)

BASE_URL == <<"https://physionet.org">>
DEFAULT_DESCRIPTION == <<"No description provided.">>
DEFAULT_RESOURCE_DESCRIPTION == <<"Project data files">>
SINGLE_ENTRY_TAGS == << <<"aws-pds">>, <<"life sciences">> >>
STANDARD_CITATION ==
    <<" Please include the standard citation for PhysioNet: Goldberger, A., Amaral, L., Glass, L., Hausdorff, J., Ivanov, P. C., Mark, R., ... & Stanley, H. E. (2000). PhysioBank, PhysioToolkit, and PhysioNet: Components of a new research resource for complex physiologic signals. Circulation [Online]. 101 (23), pp. e215-e220.">>

-----------------------------------------------------------------------------
(* Documents *)

BoundedSeq(S, n) == UNION {[1..k -> S] : k \in 0..n}

Node(t, c, s) == [tag |-> t, cls |-> c, text |-> s, hasHref |-> FALSE, href |-> <<>>]
Anchor(h) == [tag |-> "a", cls |-> "", text |-> <<"link">>, hasHref |-> TRUE, href |-> h]
None == Node("None", "", <<>>)

ORIGINAL_PUBLICATION == <<"When", " using this resource, please cite", " the original publication:">>
PLEASE_CITE == <<"When", " using this resource, please cite">>
LICENSE_LABEL == <<"License (for files):">>

H3Abstract == Node("h3", "", <<"Abstract">>)
H2Abstract == Node("h2", "", <<"Abstract">>)
H3Introduction == Node("h3", "", <<"Introduction">>)
H2Introduction == Node("h2", "", <<"Introduction">>)
H3DataDescription == Node("h3", "", <<"Data Description">>)
H3DataCollection == Node("h3", "", <<"Data Collection">>)
P1 == Node("p", "", <<"P1">>)
PDefault == Node("p", "", DEFAULT_DESCRIPTION)
Span1 == Node("span", "", <<"S1">>)
BadgeEcg == Node("span", "badge badge-pn", <<"ecg">>)
BadgeAws == Node("span", "badge badge-pn", <<"aws-pds">>)
Alert == Node("div", "alert alert-secondary", <<>>)
StrongOriginal == Node("strong", "", ORIGINAL_PUBLICATION)
StrongGeneric == Node("strong", "", PLEASE_CITE \o <<":">>)
StrongLower == Node("strong", "", <<"when", " using this resource, please cite", ":">>)
StrongPrefixed == Node("strong", "", <<"Note: ">> \o PLEASE_CITE \o <<":">>)
StrongLicense == Node("strong", "", LICENSE_LABEL)
AHref == Anchor(<<"/content/x/view-license/1.0.0/">>)
ANoHref == Node("a", "", <<"link">>)

DescNodes == {H3Abstract, H2Abstract, H3Introduction, H2Introduction,
              H3DataDescription, H3DataCollection, P1, PDefault}
CiteNodes == {Alert, StrongOriginal, StrongGeneric, StrongLower, StrongPrefixed,
              P1, Span1}
MixedNodes == {H3Abstract, P1, BadgeEcg, BadgeAws, StrongLicense, AHref, ANoHref,
               Alert, StrongGeneric, Span1}

-----------------------------------------------------------------------------
(* BeautifulSoup and markdownify, as the extractor uses them *)

\* html.find(tag, string=s): the first element, in document order, with that
\* tag name whose string is exactly s; 0 when there is none.
find(doc, t, s) ==
    LET hits == {i \in 1..Len(doc) : doc[i].tag = t /\ doc[i].text = s}
    IN  IF hits = {} THEN 0 ELSE CHOOSE i \in hits : \A j \in hits : i <= j

\* html.find(tag, class_=c)
find_class(doc, t, c) ==
    LET hits == {i \in 1..Len(doc) : doc[i].tag = t /\ doc[i].cls = c}
    IN  IF hits = {} THEN 0 ELSE CHOOSE i \in hits : \A j \in hits : i <= j

\* re.compile(pat).search(s): pat occurs somewhere in s, case-sensitively
re_search(pat, s) ==
    \E k \in 0..(Len(s) - Len(pat)) : SubSeq(s, k + 1, k + Len(pat)) = pat

\* html.find(tag, string=re.compile(pat))
find_re(doc, t, pat) ==
    LET hits == {i \in 1..Len(doc) : doc[i].tag = t /\ re_search(pat, doc[i].text)}
    IN  IF hits = {} THEN 0 ELSE CHOOSE i \in hits : \A j \in hits : i <= j

\* element.find_next(tag): the first element after position i with that tag
\* name, or None
find_next(doc, i, t) ==
    LET hits == {j \in (i + 1)..Len(doc) : doc[j].tag = t}
    IN  IF hits = {} THEN None
        ELSE doc[CHOOSE j \in hits : \A k \in hits : j <= k]

\* html.find_all('span', class_='badge badge-pn'), in document order
find_all_badges(doc) ==
    SelectSeq(doc, LAMBDA n : n.tag = "span" /\ n.cls = "badge badge-pn")

\* md(str(el)): str(None) is the text 'None', which converts to itself; a
\* paragraph converts to its text followed by a blank line (nothing when it is
\* empty); an inline span converts to its text.
md(el) ==
    CASE el.tag = "None" -> <<"None">>
      [] el.tag = "p" -> IF el.text = <<>> THEN <<>> ELSE el.text \o <<"\n\n">>
      [] OTHER -> el.text

-----------------------------------------------------------------------------
(* class PhysioNetDB *)

\* __init__
PhysioNetDB(entry_id, url, name, short_description) ==
    [entry_id |-> entry_id,
     url |-> BASE_URL \o url,
     name |-> name,
     short_description |-> short_description,
     description |-> <<>>,
     data_license |-> <<>>,
     tags |-> << <<"aws-pds">>, <<"life sciences">> >>,
     resources |-> << [Description |-> DEFAULT_RESOURCE_DESCRIPTION,
                       ARN |-> <<"arn:aws:s3:::physionet-pds/">> \o entry_id] >>]

Ok(db) == [db |-> db, raised |-> "none"]
Raise(db, exc) == [db |-> db, raised |-> exc]

extract_description_append(db, doc) ==
    LET h == find(doc, "h3", <<"Abstract">>)
    IN  Ok([db EXCEPT !.description =
               @ \o (IF h # 0 THEN md(find_next(doc, h, "p")) ELSE DEFAULT_DESCRIPTION)])

extract_description_intro_first(db, doc) ==
    LET h1 == find(doc, "h3", <<"Introduction">>)
        h2 == find(doc, "h3", <<"Abstract">>)
        h3 == find(doc, "h2", <<"Abstract">>)
        h4 == find(doc, "h3", <<"Data Description">>)
        h5 == find(doc, "h3", <<"Data Collection">>)
        h == IF h1 # 0 THEN h1 ELSE IF h2 # 0 THEN h2 ELSE IF h3 # 0 THEN h3
             ELSE IF h4 # 0 THEN h4 ELSE h5
    IN  Ok([db EXCEPT !.description =
               IF h # 0 THEN md(find_next(doc, h, "p")) ELSE DEFAULT_DESCRIPTION])

extract_description(db, doc) ==
    IF find(doc, "h3", <<"Abstract">>) # 0
    THEN Ok([db EXCEPT !.description =
                md(find_next(doc, find(doc, "h3", <<"Abstract">>), "p"))])
    ELSE IF find(doc, "h2", <<"Abstract">>) # 0
    THEN Ok([db EXCEPT !.description =
                md(find_next(doc, find(doc, "h2", <<"Abstract">>), "p"))])
    ELSE IF find(doc, "h3", <<"Introduction">>) # 0
    THEN Ok([db EXCEPT !.description =
                md(find_next(doc, find(doc, "h3", <<"Introduction">>), "p"))])
    ELSE IF find(doc, "h3", <<"Data Description">>) # 0
    THEN Ok([db EXCEPT !.description =
                md(find_next(doc, find(doc, "h3", <<"Data Description">>), "p"))])
    ELSE IF find(doc, "h3", <<"Data Collection">>) # 0
    THEN Ok([db EXCEPT !.description =
                md(find_next(doc, find(doc, "h3", <<"Data Collection">>), "p"))])
    ELSE Ok([db EXCEPT !.description = DEFAULT_DESCRIPTION])

get_texts(ns) == [k \in 1..Len(ns) |-> ns[k].text]

extract_tags_replace(db, doc) ==
    Ok([db EXCEPT !.tags = get_texts(find_all_badges(doc))])

extract_tags(db, doc) ==
    Ok([db EXCEPT !.tags = @ \o get_texts(find_all_badges(doc))])

extract_license(db, doc) ==
    LET h == find(doc, "strong", LICENSE_LABEL)
        a == find_next(doc, h, "a")
    IN  IF h = 0 THEN Ok(db)
        ELSE IF a = None THEN Raise(db, "AttributeError")
        ELSE IF ~a.hasHref THEN Raise(db, "KeyError")
        ELSE Ok([db EXCEPT !.data_license = BASE_URL \o a.href])

LEAD_IN_ORIGINAL == <<" When using this resource, please cite the original publication: ">>
LEAD_IN_GENERIC == <<" When using this resource, please cite: ">>

extract_citation_generic_first(db, doc) ==
    LET o == find(doc, "strong", ORIGINAL_PUBLICATION)
        c == find_re(doc, "strong", PLEASE_CITE)
    IN  IF find_class(doc, "div", "alert alert-secondary") = 0 THEN Ok(db)
        ELSE IF c # 0
        THEN Ok([db EXCEPT !.description =
                    @ \o LEAD_IN_GENERIC \o md(find_next(doc, c, "span"))])
        ELSE IF o # 0
        THEN Ok([db EXCEPT !.description =
                    @ \o LEAD_IN_ORIGINAL \o md(find_next(doc, o, "p"))])
        ELSE Ok([db EXCEPT !.description = @ \o STANDARD_CITATION])

extract_citation(db, doc) ==
    LET o == find(doc, "strong", ORIGINAL_PUBLICATION)
        c == find_re(doc, "strong", PLEASE_CITE)
    IN  IF find_class(doc, "div", "alert alert-secondary") = 0 THEN Ok(db)
        ELSE IF o # 0
        THEN Ok([db EXCEPT !.description =
                    @ \o LEAD_IN_ORIGINAL \o md(find_next(doc, o, "p"))])
        ELSE IF c # 0
        THEN Ok([db EXCEPT !.description =
                    @ \o LEAD_IN_GENERIC \o md(find_next(doc, c, "span"))])
        ELSE Ok([db EXCEPT !.description = @ \o STANDARD_CITATION])

-----------------------------------------------------------------------------------------------------------------------------------------------------
(* The states in which a part of the program is not running *)

IdleExtractor ==
    /\ html = <<>>
    /\ database = PhysioNetDB(<<"x">>, <<"/", "content", "/", "x", "/">>, "X", <<"short">>)
    /\ raised = "none"
    /\ hist = <<>>

IdleLister ==
    /\ soup = [header_id |-> "open", sibling |-> "None", children |-> <<>>]
    /\ db_type = "open"
    /\ lpc = "idle"
    /\ item = 0

IdleDriver ==
    /\ args = [format |-> "separate", csv |-> FALSE]
    /\ START = 0
    /\ END = 0
    /\ pc = "idle"
    /\ index = 0
    /\ tag = 0
    /\ entry = [Tags |-> <<>>, Resources |-> <<>>]
    /\ files = <<>>
    /\ events = <<>>
    /\ stdout = <<>>
    /\ exit_status = -1

-----------------------------------------------------------------------------
(* The extractor called on one entry and one page, in any order *)

Call(op, r) ==
    /\ Len(hist) < MaxOps
    /\ database' = r.db
    /\ raised' = r.raised
    /\ hist' = Append(hist, op)
    /\ html' = html
    /\ UNCHANGED <<lvars, open_databases, dvars>>

DoExtractDescription == Call("description", extract_description(database, html))
DoExtractTags == Call("tags", extract_tags(database, html))
DoExtractLicense == Call("license", extract_license(database, html))
DoExtractCitation == Call("citation", extract_citation(database, html))

InitExtract(nodes, n) ==
    /\ html \in BoundedSeq(nodes, n)
    /\ database = PhysioNetDB(<<"x">>, <<"/", "content", "/", "x", "/">>, "X", <<"short">>)
    /\ raised = "none"
    /\ hist = <<>>
    /\ open_databases = <<>>
    /\ IdleLister
    /\ IdleDriver

Init == InitExtract(MixedNodes, MaxMixedNodes)
Next == DoExtractDescription \/ DoExtractTags \/ DoExtractLicense \/ DoExtractCitation
Spec == Init /\ [][Next]_vars

InitDesc == InitExtract(DescNodes, MaxNodes)
NextDesc == DoExtractDescription
SpecDesc == InitDesc /\ [][NextDesc]_vars

InitCite == InitExtract(CiteNodes, MaxNodes)
NextCite == DoExtractDescription \/ DoExtractCitation
SpecCite == InitCite /\ [][NextCite]_vars

-----------------------------------------------------------------------------
(* The catalog listing, lines 246-265 *)

\* The children of the element after the heading: a list item with its first
\* anchor (if any) and the node after that anchor, or a text node, whose name
\* is None.
Li(a, sibling, s) ==
    [name |-> "li", hasA |-> TRUE, href |-> a.href, text |-> a.text,
     next_sibling |-> sibling, string |-> s]
LiNoAnchor ==
    [name |-> "li", hasA |-> FALSE, href |-> <<>>, text |-> "",
     next_sibling |-> "None", string |-> <<>>]
TextNode ==
    [name |-> "None", hasA |-> FALSE, href |-> <<>>, text |-> "",
     next_sibling |-> "None", string |-> <<"\n">>]

ADemo == [href |-> <<"/", "content", "/", "abc123", "/", "1.0.0", "/">>, text |-> "Demo DB"]
AShort == [href |-> <<"/", "content", "/", "x">>, text |-> "X"]
AAbout == [href |-> <<"/", "about">>, text |-> "About"]
Anchors == {ADemo, AShort, AAbout}

TailDemo == <<":", " ", "a", " ", "demo.">>
TailInnerColon == <<":", " ", "ECG", ":", " ", "12 leads">>
TailNewlines == <<":", "\n", " ", "multi", "\n", "line", " ", "\n">>
TailNoColon == <<" ", "plain">>
Tails == {TailDemo, TailInnerColon, TailNewlines, TailNoColon}

Children ==
    {Li(a, "text", s) : a \in Anchors, s \in Tails}
        \cup {Li(ADemo, "None", <<>>), LiNoAnchor, TextNode}

\* str.split(sep): the pieces between the separators
RECURSIVE split(_, _)
split(s, sep) ==
    LET seps == {i \in 1..Len(s) : s[i] = sep}
    IN  IF seps = {} THEN <<s>>
        ELSE LET i == CHOOSE j \in seps : \A k \in seps : j <= k
             IN  <<SubSeq(s, 1, i - 1)>> \o split(SubSeq(s, i + 1, Len(s)), sep)

\* str.replace(old, ''): every occurrence goes
remove(s, old) == SelectSeq(s, LAMBDA c : c # old)

remove_first(s, old) ==
    LET hits == {i \in 1..Len(s) : s[i] = old}
    IN  IF hits = {} THEN s
        ELSE LET i == CHOOSE j \in hits : \A k \in hits : j <= k
             IN  SubSeq(s, 1, i - 1) \o SubSeq(s, i + 1, Len(s))

Whitespace == {" ", "\n"}

\* str.strip()
RECURSIVE strip(_)
strip(s) ==
    IF s = <<>> THEN s
    ELSE IF s[1] \in Whitespace THEN strip(Tail(s))
    ELSE IF s[Len(s)] \in Whitespace THEN strip(SubSeq(s, 1, Len(s) - 1))
    ELSE s

\* lines 261-262
short_description_first_colon(string) ==
    remove(strip(remove_first(string, ":")), "\n")

short_description_of(string) ==
    remove(strip(remove(string, ":")), "\n")

\* lines 258-265: the entry of one list item, or the exception it raises
new_entry(li) ==
    IF ~li.hasA THEN Raise(None, "AttributeError")
    ELSE IF Len(split(li.href, "/")) < 3 THEN Raise(None, "IndexError")
    ELSE IF li.next_sibling # "text" THEN Raise(None, "AttributeError")
    ELSE Ok(PhysioNetDB(split(li.href, "/")[3], li.href, li.text,
                        short_description_of(li.string)))

\* lines 252-253
FindHeader ==
    /\ lpc = "header"
    /\ IF soup.header_id # db_type
       THEN lpc' = "error" /\ raised' = "AttributeError" /\ item' = item
       ELSE IF soup.sibling = "None"
       THEN lpc' = "error" /\ raised' = "TypeError" /\ item' = item
       ELSE lpc' = "loop" /\ raised' = raised /\ item' = 1
    /\ UNCHANGED <<html, database, hist, soup, db_type, open_databases, dvars>>

\* lines 256-265, one item of the loop
ListItem ==
    /\ lpc = "loop"
    /\ item <= Len(soup.children)
    /\ LET li == soup.children[item]
           r == new_entry(li)
       IN  IF li.name # "li"
           THEN /\ item' = item + 1
                /\ UNCHANGED <<lpc, raised, open_databases>>
           ELSE IF r.raised # "none"
           THEN /\ lpc' = "error"
                /\ raised' = r.raised
                /\ UNCHANGED <<item, open_databases>>
           ELSE /\ open_databases' = Append(open_databases, r.db)
                /\ item' = item + 1
                /\ UNCHANGED <<lpc, raised>>
    /\ UNCHANGED <<html, database, hist, soup, db_type, dvars>>

ListDone ==
    /\ lpc = "loop"
    /\ item > Len(soup.children)
    /\ lpc' = "done"
    /\ UNCHANGED <<xvars, soup, db_type, item, open_databases, dvars>>

InitLister ==
    /\ db_type \in {"open", "restricted"}
    /\ \E h \in {"open", "restricted"}, sib \in {"ul", "div", "None"} :
          \E c \in BoundedSeq(Children, MaxItems) :
              /\ sib = "None" => c = <<>>
              /\ soup = [header_id |-> h, sibling |-> sib, children |-> c]
    /\ lpc = "header"
    /\ item = 0
    /\ open_databases = <<>>
    /\ IdleExtractor
    /\ IdleDriver

NextLister == FindHeader \/ ListItem \/ ListDone
SpecLister == InitLister /\ [][NextLister]_vars

-----------------------------------------------------------------------------
(* The driver, lines 266-333 *)

Event(e, i, what) == [ev |-> e, index |-> i, what |-> what]

\* The detail pages the driver's requests may return
DetailPages ==
    {<<>>,
     <<BadgeEcg, BadgeEcg>>,
     <<H3Abstract, P1, BadgeAws, BadgeEcg, Alert>>,
     <<StrongLicense, AHref>>,
     <<StrongLicense>>}

\* open_databases[START:END] holds the entries at the (1-based) positions
\* START + 1 .. Stop
Min(a, b) == IF a <= b THEN a ELSE b
Stop == Min(END, Len(open_databases))

\* generate_separate_roda
generate_separate_roda(db) ==
    [Name |-> db.name, Description |-> db.description, Tags |-> db.tags,
     License |-> db.data_license, Resources |-> db.resources]

\* generate_single_roda
generate_single_roda(db) ==
    [db.resources[1] EXCEPT !.Description = db.short_description]

\* lines 293, 298, 317: the branch the format selects
format_branch_lenient(format) ==
    IF format = "single" THEN "single" ELSE "separate"

format_branch(format) ==
    IF format = "separate" THEN "separate"
    ELSE IF format = "single" THEN "single"
    ELSE "unknown"

\* lines 313-314
merge_tag_always(Tags, t) == Append(Tags, t)

merge_tag(Tags, t) ==
    IF \E k \in 1..Len(Tags) : Tags[k] = t THEN Tags ELSE Append(Tags, t)

\* lines 266-271
SetEnd ==
    /\ pc = "start"
    /\ END' = IF END = 0 THEN Len(open_databases) ELSE END
    /\ index' = START + 1
    /\ pc' = "fetch"
    /\ UNCHANGED <<xvars, lvars, open_databases, args, START, tag, entry, files,
                   events, stdout, exit_status>>

\* lines 276-278
Fetch ==
    /\ pc = "fetch"
    /\ index <= Stop
    /\ html' \in DetailPages
    /\ events' = Append(events, Event("fetch", index, "details"))
    /\ pc' = "description"
    /\ UNCHANGED <<database, raised, hist, lvars, open_databases, args, START, END,
                   index, tag, entry, files, stdout, exit_status>>

\* lines 281-290: one extractor call on the entry the loop is at; an
\* exception ends the program with a traceback and status 1
Extract(at, op, r, then) ==
    /\ pc = at
    /\ events' = Append(events, Event("extract", index, op))
    /\ raised' = r.raised
    /\ IF r.raised = "none"
       THEN /\ open_databases' = [open_databases EXCEPT ![index] = r.db]
            /\ pc' = then
            /\ index' = IF then = "fetch" THEN index + 1 ELSE index
            /\ UNCHANGED <<stdout, exit_status>>
       ELSE /\ pc' = "exit"
            /\ stdout' = Append(stdout, "Traceback")
            /\ exit_status' = 1
            /\ UNCHANGED <<open_databases, index>>
    /\ UNCHANGED <<html, database, hist, lvars, args, START, END, tag, entry, files>>

ExtractDescription ==
    Extract("description", "description",
            extract_description(open_databases[index], html), "tags")
ExtractTags ==
    Extract("tags", "tags", extract_tags(open_databases[index], html), "license")
ExtractLicense ==
    Extract("license", "license", extract_license(open_databases[index], html),
            "citation")
ExtractCitation ==
    Extract("citation", "citation", extract_citation(open_databases[index], html),
            "fetch")

\* lines 293, 298-309, 317-320
Branch ==
    /\ pc = "fetch"
    /\ index > Stop
    /\ index' = START + 1
    /\ CASE format_branch(args.format) = "separate" ->
              /\ pc' = "separate"
              /\ UNCHANGED <<entry, stdout, exit_status>>
         [] format_branch(args.format) = "single" ->
              /\ pc' = "single"
              /\ entry' = [Tags |-> SINGLE_ENTRY_TAGS, Resources |-> <<>>]
              /\ UNCHANGED <<stdout, exit_status>>
         [] OTHER ->
              /\ pc' = "exit"
              /\ stdout' = Append(stdout, "Unknown YAML format specified")
              /\ exit_status' = 1
              /\ UNCHANGED entry
    /\ UNCHANGED <<xvars, lvars, open_databases, args, START, END, tag, files, events>>

\* lines 294-296
WriteSeparate ==
    /\ pc = "separate"
    /\ IF index <= Stop
       THEN /\ files' = Append(files,
                   [name |-> <<"output/">> \o open_databases[index].entry_id \o <<".yaml">>,
                    content |-> generate_separate_roda(open_databases[index])])
            /\ events' = Append(events, Event("output", index, "yaml"))
            /\ index' = index + 1
            /\ pc' = pc
       ELSE /\ pc' = "csv"
            /\ UNCHANGED <<files, events, index>>
    /\ UNCHANGED <<xvars, lvars, open_databases, args, START, END, tag, entry,
                   stdout, exit_status>>

\* line 311
SingleResource ==
    /\ pc = "single"
    /\ index <= Stop
    /\ entry' = [entry EXCEPT !.Resources =
                    Append(@, generate_single_roda(open_databases[index]))]
    /\ events' = Append(events, Event("output", index, "resource"))
    /\ tag' = 1
    /\ pc' = "merge"
    /\ UNCHANGED <<xvars, lvars, open_databases, args, START, END, index, files,
                   stdout, exit_status>>

\* lines 312-314, one tag of the loop
MergeTag ==
    /\ pc = "merge"
    /\ IF tag <= Len(open_databases[index].tags)
       THEN /\ entry' = [entry EXCEPT !.Tags =
                           merge_tag(@, open_databases[index].tags[tag])]
            /\ tag' = tag + 1
            /\ UNCHANGED <<pc, index>>
       ELSE /\ pc' = "single"
            /\ index' = index + 1
            /\ UNCHANGED <<entry, tag>>
    /\ UNCHANGED <<xvars, lvars, open_databases, args, START, END, files, events,
                   stdout, exit_status>>

\* lines 315-316
WriteSingle ==
    /\ pc = "single"
    /\ index > Stop
    /\ files' = Append(files, [name |-> <<"output/single.yaml">>, content |-> entry])
    /\ pc' = "csv"
    /\ UNCHANGED <<xvars, lvars, open_databases, args, START, END, index, tag, entry,
                   events, stdout, exit_status>>

\* as_csv
as_csv(db) ==
    <<db.name, db.data_license, db.tags, remove(db.short_description, ",")>>

\* lines 323-333
WriteCsv ==
    /\ pc = "csv"
    /\ IF args.csv
       THEN /\ files' = Append(files,
                   [name |-> <<"output/databases.csv">>,
                    content |-> [k \in 1..Len(open_databases) |->
                                    as_csv(open_databases[k])]])
            /\ events' = events \o [k \in 1..Len(open_databases) |->
                                       Event("output", k, "csv")]
       ELSE UNCHANGED <<files, events>>
    /\ pc' = "exit"
    /\ exit_status' = 0
    /\ UNCHANGED <<xvars, lvars, open_databases, args, START, END, index, tag, entry,
                   stdout>>

InitDriver ==
    /\ \E n \in 0..MaxEntries :
          open_databases =
              [k \in 1..n |-> PhysioNetDB(<<"db", k>>, <<"/", "content", "/", "db", k>>,
                                          "DB", <<"short", ",", " ", "text">>)]
    /\ args \in [format : {"separate", "single", "yaml"}, csv : BOOLEAN]
    /\ START \in 0..MaxEntries
    /\ END \in 0..MaxEntries
    /\ pc = "start"
    /\ index = 0
    /\ tag = 0
    /\ entry = [Tags |-> <<>>, Resources |-> <<>>]
    /\ files = <<>>
    /\ events = <<>>
    /\ stdout = <<>>
    /\ exit_status = -1
    /\ IdleExtractor
    /\ IdleLister

NextDriver ==
    \/ SetEnd
    \/ Fetch
    \/ ExtractDescription
    \/ ExtractTags
    \/ ExtractLicense
    \/ ExtractCitation
    \/ Branch
    \/ WriteSeparate
    \/ SingleResource
    \/ MergeTag
    \/ WriteSingle
    \/ WriteCsv
SpecDriver == InitDriver /\ [][NextDriver]_vars

-----
(* Properties of the extractor *)

Last == hist[Len(hist)]
Repeats(op) == hist # <<>> /\ Last = op /\ hist' = Append(hist, op)
IsPrefix(s, t) == Len(s) <= Len(t) /\ SubSeq(t, 1, Len(s)) = s
HasBadge == \E i \in 1..Len(html) : html[i].tag = "span" /\ html[i].cls = "badge badge-pn"
HasAlert == \E i \in 1..Len(html) : html[i].tag = "div" /\ html[i].cls = "alert alert-secondary"

\* C1 (as stated): each of the four extractor operations is idempotent: applied
\* a second time in a row to the same entry with the same page, it leaves the
\* entry as the first application left it.
C1_Idempotent ==
    [][\A op \in {"description", "tags", "license", "citation"} :
          Repeats(op) => database' = database]_vars

\* C1 (amended): extract_description and extract_license are idempotent;
\* extract_tags is idempotent exactly on pages without a badge and
\* extract_citation exactly on pages without the secondary-alert container:
\* otherwise the second application appends the badges, or the citation text,
\* once more.
C1_IdempotentUnlessAppending ==
    [][/\ Repeats("description") \/ Repeats("license") => database' = database
       /\ Repeats("tags") =>
            /\ (database' = database) <=> ~HasBadge
            /\ database'.description = database.description
            /\ database'.data_license = database.data_license
       /\ Repeats("citation") =>
            /\ (database' = database) <=> ~HasAlert
            /\ database'.tags = database.tags
            /\ database'.data_license = database.data_license]_vars

C1_Witness ==
    /\ hist = <<"tags", "tags">>
    /\ HasBadge
    /\ Len(database.tags) = 2 + 2 * Len(find_all_badges(html))

\* C2: every extractor operation is total: on every page, also one where a
\* label or heading is present and the element expected after it is absent, it
\* completes without raising and leaves its field empty or at its default.
C2_Total ==
    hist # <<>> =>
        /\ raised = "none"
        /\ (/\ hist = <<"description">>
            /\ \E i \in 1..Len(html) :
                   /\ html[i] \in {H3Abstract, H2Abstract, H3Introduction,
                                   H3DataDescription, H3DataCollection}
                   /\ \A j \in (i + 1)..Len(html) : html[j].tag # "p"
                   /\ \A j \in 1..(i - 1) : html[j].tag \notin {"h2", "h3"})
           => database.description \in {<<>>, DEFAULT_DESCRIPTION}
        /\ (/\ Last = "license"
            /\ \E i \in 1..Len(html) :
                   /\ html[i] = StrongLicense
                   /\ \A j \in (i + 1)..Len(html) : html[j].tag # "a")
           => database.data_license = <<>>

\* C3: in every reachable state of an entry the tag list has at least two
\* elements, the first two being 'aws-pds' and 'life sciences' in that order,
\* and no operation removes or replaces an element of the list (extract_tags
\* only appends).
C3_BaselineTags ==
    /\ [](/\ Len(database.tags) >= 2
          /\ database.tags[1] = <<"aws-pds">>
          /\ database.tags[2] = <<"life sciences">>)
    /\ [][IsPrefix(database.tags, database'.tags)]_vars

C3_Witness ==
    /\ hist # <<>>
    /\ Last = "tags"
    /\ HasBadge
    /\ Len(database.tags) > 2

\* C4: extract_description takes the description from the paragraph that
\* follows the highest-priority heading present, in the order h3 Abstract,
\* h2 Abstract, h3 Introduction, h3 Data Description, h3 Data Collection, and
\* the description is the default 'No description provided.' exactly when none
\* of the five is present.
Candidates ==
    << <<"h3", "Abstract">>, <<"h2", "Abstract">>, <<"h3", "Introduction">>,
       <<"h3", "Data Description">>, <<"h3", "Data Collection">> >>
Matches(n, k) == n.tag = Candidates[k][1] /\ n.text = <<Candidates[k][2]>>
Present(k) == \E i \in 1..Len(html) : Matches(html[i], k)
C4_HeadingPriority ==
    hist # <<>> /\ Last = "description" =>
        /\ (database.description = DEFAULT_DESCRIPTION)
               <=> ~\E k \in 1..Len(Candidates) : Present(k)
        /\ \A k \in 1..Len(Candidates), i, j \in 1..Len(html) :
               (/\ Present(k) /\ \A m \in 1..(k - 1) : ~Present(m)
                /\ Matches(html[i], k) /\ \A m \in 1..(i - 1) : ~Matches(html[m], k)
                /\ i < j /\ html[j].tag = "p"
                /\ \A m \in (i + 1)..(j - 1) : html[m].tag # "p")
               => database.description = html[j].text \o <<"\n\n">>

C4_Witness ==
    /\ hist = <<"description">>
    /\ html = <<H3Introduction, P1, H3Abstract, PDefault>>
    /\ database.description = DEFAULT_DESCRIPTION \o <<"\n\n">>

\* C5 (as stated): extract_citation leaves the description unchanged when the
\* secondary-alert container is absent; when it is present it appends exactly
\* one text: (a) the 'original publication' lead-in and the following paragraph
\* when a bold label with exactly that text exists; else (b) the generic lead-in
\* and the following span when a bold label matches 'When using this resource,
\* please cite' case-insensitively and anchored at its start; else (c) the
\* standard citation.
LowerCase(t) ==
    CASE t = "When" -> "when" [] t = "Note: " -> "note: " [] OTHER -> t
Lower(s) == [k \in 1..Len(s) |-> LowerCase(s[k])]
Contains(s, pat) == \E a, b \in 0..Len(s) : a <= b /\ SubSeq(s, a + 1, b) = pat
StartsWithIgnoringCase(s, pat) ==
    Len(pat) <= Len(s) /\ Lower(SubSeq(s, 1, Len(pat))) = Lower(pat)
FirstOf(hits) == IF hits = {} THEN 0 ELSE CHOOSE i \in hits : \A j \in hits : i <= j
Following(i, t) ==
    {j \in (i + 1)..Len(html) :
        html[j].tag = t /\ \A m \in (i + 1)..(j - 1) : html[m].tag # t}
Labels == {i \in 1..Len(html) : html[i].tag = "strong"}
OriginalLabels == {i \in Labels : html[i].text = ORIGINAL_PUBLICATION}
CitationAppended(generic) ==
    LET d == database.description
        e == database'.description
        o == FirstOf(OriginalLabels)
        c == FirstOf(generic)
    IN  IF ~HasAlert THEN e = d
        ELSE IF o # 0
        THEN /\ IsPrefix(d \o LEAD_IN_ORIGINAL, e)
             /\ \A j \in Following(o, "p") :
                    e = d \o LEAD_IN_ORIGINAL \o html[j].text \o <<"\n\n">>
        ELSE IF c # 0
        THEN /\ IsPrefix(d \o LEAD_IN_GENERIC, e)
             /\ \A j \in Following(c, "span") :
                    e = d \o LEAD_IN_GENERIC \o html[j].text
        ELSE e = d \o STANDARD_CITATION
AnchoredAnyCaseLabels ==
    {i \in Labels : StartsWithIgnoringCase(html[i].text, PLEASE_CITE)}
C5_CitationPriority ==
    [][hist' = Append(hist, "citation") =>
          CitationAppended(AnchoredAnyCaseLabels)]_vars

\* C5 (amended): as stated, except that branch (b) is taken when a bold label
\* contains 'When using this resource, please cite' anywhere in its text, in
\* exactly that letter case (a case-sensitive, unanchored search).
ContainingLabels == {i \in Labels : Contains(html[i].text, PLEASE_CITE)}
C5_CitationPriorityCaseSensitive ==
    [][hist' = Append(hist, "citation") =>
          CitationAppended(ContainingLabels)]_vars

C5_Witness ==
    /\ hist = <<"citation">>
    /\ html = <<Alert, StrongGeneric, StrongOriginal, P1>>
    /\ database.description = LEAD_IN_ORIGINAL \o <<"P1", "\n\n">>

-----------------------------------------------------------------------------
(* Properties of the catalog listing *)

\* C8: the listing fails with a catalog-structure error, and creates no entry,
\* when the index page has no heading with the requested id and also when the
\* element after the heading is not a list; it never walks the items of an
\* element that is not a list.
C8_CatalogStructureError ==
    (lpc # "idle" /\ (soup.header_id # db_type \/ soup.sibling # "ul")) =>
        /\ open_databases = <<>>
        /\ lpc \in {"header", "error"}

Count(s, c) == Cardinality({i \in 1..Len(s) : s[i] = c})
NthSeparator(s, n) ==
    CHOOSE i \in 1..Len(s) :
        s[i] = "/" /\ Cardinality({j \in 1..(i - 1) : s[j] = "/"}) = n - 1
ThirdSegment(s) ==
    SubSeq(s, NthSeparator(s, 2) + 1,
           IF Count(s, "/") >= 3 THEN NthSeparator(s, 3) - 1 ELSE Len(s))
Trimmed(s) ==
    LET solid == {i \in 1..Len(s) : s[i] \notin Whitespace}
    IN  IF solid = {} THEN <<>>
        ELSE SubSeq(s, CHOOSE i \in solid : \A j \in solid : i <= j,
                       CHOOSE i \in solid : \A j \in solid : i >= j)
ListItems == SelectSeq(SubSeq(soup.children, 1, item - 1), LAMBDA c : c.name = "li")

\* C9 (as stated): every list item gives one entry, in document order, with the
\* third '/'-delimited segment of the href as id and the anchor text as name;
\* of the text after the anchor only the separating colon is removed, colons
\* inside the description are kept, and the item
\* <a href="/content/abc123/1.0.0/">Demo DB</a>: a demo. gives the
\* shortDescription 'a demo'.
C9_ListedEntries ==
    lpc \in {"loop", "done"} =>
        /\ Len(open_databases) = Len(ListItems)
        /\ \A k \in 1..Len(open_databases) :
               LET e == open_databases[k]
                   li == ListItems[k]
               IN  /\ e.entry_id = ThirdSegment(li.href)
                   /\ e.name = li.text
                   /\ Count(e.short_description, ":") =
                          Count(li.string, ":") - (IF li.string[1] = ":" THEN 1 ELSE 0)
                   /\ (li.href = ADemo.href /\ li.string = TailDemo)
                          => e.short_description = <<"a", " ", "demo">>

\* C9 (amended): every list item whose anchor has an href of at least three
\* '/'-delimited segments and is followed by text gives one entry, in document
\* order, with the third segment of the href as id and the anchor text as name;
\* its shortDescription is the text after the anchor with every colon removed
\* (those inside the description too), then trimmed of surrounding whitespace,
\* then with its newlines removed, so that the item
\* <a href="/content/abc123/1.0.0/">Demo DB</a>: a demo. gives 'a demo.'.
C9_ListedEntriesAllColons ==
    lpc \in {"loop", "done", "error"} =>
        /\ Len(open_databases) = Len(ListItems)
        /\ \A k \in 1..Len(open_databases) :
               LET e == open_databases[k]
                   li == ListItems[k]
               IN  /\ e.entry_id = ThirdSegment(li.href)
                   /\ e.name = li.text
                   /\ e.short_description =
                          SelectSeq(Trimmed(SelectSeq(li.string, LAMBDA c : c # ":")),
                                    LAMBDA c : c # "\n")
                   /\ (li.href = ADemo.href /\ li.string = TailDemo)
                          => /\ e.entry_id = <<"abc123">>
                             /\ e.name = "Demo DB"
                             /\ e.short_description = <<"a", " ", "demo.">>

C9_Witness ==
    /\ lpc = "done"
    /\ soup.children = <<Li(ADemo, "text", TailDemo), Li(AShort, "text", TailInnerColon)>>
    /\ Len(open_databases) = 2
    /\ open_databases[1].short_description = <<"a", " ", "demo.">>
    /\ open_databases[2].entry_id = <<"x">>
    /\ open_databases[2].short_description = <<"ECG", " ", "12 leads">>

-----------------------------------------------------------------------------
(* Properties of the driver *)

NoDuplicates(s) == \A i, j \in 1..Len(s) : s[i] = s[j] => i = j
Written(name) == {k \in 1..Len(files) : files[k].name = name}

\* C6: in the single-file format the shared record's tag list holds no element
\* twice, at every point of the merge loop and in the file written, whatever
\* the entries' own tag lists hold.
C6_NoDuplicateTags ==
    /\ NoDuplicates(entry.Tags)
    /\ \A k \in Written(<<"output/single.yaml">>) : NoDuplicates(files[k].content.Tags)

C6_Witness ==
    /\ pc = "exit"
    /\ \E k \in Written(<<"output/single.yaml">>) :
           files[k].content.Tags = << <<"aws-pds">>, <<"life sciences">>, <<"ecg">> >>
    /\ \E i, j \in (START + 1)..Stop :
           /\ open_databases[i].tags =
                  << <<"aws-pds">>, <<"life sciences">>, <<"ecg">>, <<"ecg">> >>
           /\ open_databases[j].tags =
                  << <<"aws-pds">>, <<"life sciences">>, <<"aws-pds">>, <<"ecg">> >>

\* C7: when the format is neither of the two recognized values the driver
\* reports an error and ends with a non-zero exit status, and at no point of
\* the run has it written a file, databases.csv included.
C7_UnknownFormat ==
    (pc # "idle" /\ args.format \notin {"separate", "single"}) =>
        /\ files = <<>>
        /\ pc \notin {"separate", "single", "merge", "csv"}
        /\ pc = "exit" => exit_status # 0 /\ stdout # <<>>

C7_Witness ==
    /\ pc = "exit"
    /\ args = [format |-> "yaml", csv |-> TRUE]
    /\ \E k \in 1..Len(events) : events[k].ev = "extract" /\ events[k].what = "citation"
    /\ stdout = <<"Unknown YAML format specified">>
    /\ exit_status = 1
    /\ files = <<>>

\* C10: every entry that reaches an output (a YAML record, a resource of the
\* shared record, a CSV row) has before that been fetched once and enriched
\* once by the four extraction steps in the order description, tags, license,
\* citation, and no entry is fetched or enriched more than once; for every
\* START and END and with the CSV export on.
EventsOf(i, upto) ==
    SelectSeq(SubSeq(events, 1, upto),
              LAMBDA e : e.index = i /\ e.ev \in {"fetch", "extract"})
Enrichment(i) ==
    <<Event("fetch", i, "details"), Event("extract", i, "description"),
      Event("extract", i, "tags"), Event("extract", i, "license"),
      Event("extract", i, "citation")>>
C10_Lifecycle ==
    /\ \A p \in 1..Len(events) :
           events[p].ev = "output" =>
               EventsOf(events[p].index, p - 1) = Enrichment(events[p].index)
    /\ \A i \in 1..Len(open_databases) :
           IsPrefix(EventsOf(i, Len(events)), Enrichment(i))

====
